---- MODULE Spec2Model ----
(***************************************************************************)
(* Model of WebContainerComponent (src/src/App.jsx): the React component   *)
(* that boots a WebContainer, mounts the seed tree (files), runs           *)
(* `npm install`, starts `npm run dev`, redirects the preview iframe on    *)
(* 'server-ready', and forwards textarea edits to /App.jsx in the sandbox. *)
(*                                                                         *)
(* React state is modelled twice: `state` holds the value of the latest    *)
(* setState call, `rendered` the value captured by the closures of the     *)
(* last committed render.  Every `await` of the source is a point where    *)
(* other handlers may run, so every async function is cut at its awaits.   *)
(***************************************************************************)
EXTENDS Naturals, Sequences, FiniteSets, TLC

\* Bounds of the model.
MaxStimuli == 2      \* external events: output chunks, 'server-ready' events, edits, uploads

\* React invokes a mount effect once, and once more on the same render's
\* closure when the tree is wrapped in StrictMode (development build).
MountInvocations == {1, 2}
Runs == {1, 2}                   \* runs of setupWebContainer, in order of start
NoUrl == "none"                  \* no 'server-ready' event yet
NoInstance == 0                  \* webcontainerInstance === null
NoExit == 99                     \* installProcess.exit still pending
ExitCodes == {0, 1, 2}
Urls == {"http://a", "http://b", "http://x.local"}
Ports == {3000, 5173}
NoSrc == ""                      \* an iframe whose src was never assigned
Seed == "seed"                   \* files['App.jsx'].file.contents
Absent == "absent"               \* /App.jsx does not exist in the sandbox
Contents == {"new content", "newer content"}
NoError == [name |-> "none", message |-> ""]
\* File names are sequences of characters; the <input type="file"> hands over
\* a list of them.
Lowers == {"a", "p", "j", "s", "x"}
Uppers == {"A"}
Digits == {"1"}
AppJsx == <<"A", "p", "p", ".", "j", "s", "x">>
FileLists == {<<>>, <<AppJsx>>}
EditablePath == <<"/">> \o AppJsx   \* '/App.jsx'

VARIABLES
  mounted,      \* the component has mounted and its mount effects have run
  started,      \* number of runs of setupWebContainer started so far
  state,        \* React state after the latest setState calls
  rendered,     \* React state as seen by the closures of the committed render
  iframeRef,    \* TRUE iff iframeRef.current is an element
  iframeSrc,    \* iframeRef.current.src
  pc,           \* pc[k]: the await at which run k of setupWebContainer is parked
  trace,        \* trace[k]: sandbox calls issued and results seen by run k
  installExit,  \* installExit[k]: exit code seen by run k
  uncaught,     \* uncaught[k]: rejection value of run k's promise
  outQueue,     \* outQueue[k]: chunks in installProcess.output not yet read
  sinkLog,      \* sinkLog[k]: chunks written to the WritableStream (console.log)
  emitted,      \* emitted[k]: number of chunks the install process produced
  piped,        \* piped[k]: pipeTo has attached the sink
  listeners,    \* instances with a 'server-ready' listener registered
  readyCount,   \* number of 'server-ready' events emitted in the session
  lastReady,    \* url of the latest 'server-ready' event
  fs,           \* fs[k]: content of /App.jsx in the sandbox booted by run k
  inflight,     \* fs.writeFile calls issued and not yet applied
  pushes,       \* number of textarea input events so far
  uploaded,     \* uploaded[k]: paths mounted into sandbox k by handleFileUpload
  uploadFaults, \* rejections of handleFileUpload's promise, nobody catches them
  stimuli       \* number of external events so far

vars == <<mounted, started, state, rendered, iframeRef, iframeSrc, pc, trace, installExit,
          uncaught, outQueue, sinkLog, emitted, piped, listeners, readyCount,
          lastReady, fs,
          inflight, pushes, uploaded, uploadFaults, stimuli>>

orchVars == <<pc, trace, installExit, uncaught>>
procVars == <<outQueue, sinkLog, emitted, piped>>
readyVars == <<listeners, readyCount, lastReady>>
effectVars == <<mounted, started>>
syncVars == <<fs, inflight, pushes>>
uploadVars == <<uploaded, uploadFaults>>
frameVars == <<iframeRef, iframeSrc>>

\* useState(null) / useState(false) / useState(true), useRef(null); first render.
Init ==
  /\ mounted = FALSE
  /\ started = 0
  /\ state = [initialized |-> FALSE, loading |-> TRUE, webcontainerInstance |-> NoInstance,
              modelMetadata |-> <<>>]
  /\ rendered = state
  /\ iframeRef = FALSE
  /\ iframeSrc = NoSrc
  /\ pc = [k \in Runs |-> "none"]
  /\ trace = [k \in Runs |-> <<>>]
  /\ installExit = [k \in Runs |-> NoExit]
  /\ uncaught = [k \in Runs |-> NoError]
  /\ outQueue = [k \in Runs |-> <<>>]
  /\ sinkLog = [k \in Runs |-> <<>>]
  /\ emitted = [k \in Runs |-> 0]
  /\ piped = [k \in Runs |-> FALSE]
  /\ listeners = {}
  /\ readyCount = 0
  /\ lastReady = NoUrl
  /\ fs = [k \in Runs |-> Absent]
  /\ inflight = {}
  /\ pushes = 0
  /\ uploaded = [k \in Runs |-> {}]
  /\ uploadFaults = {}
  /\ stimuli = 0

Has(k, ev) == \E i \in 1..Len(trace[k]) : trace[k][i] = ev
Pos(k, ev) == CHOOSE i \in 1..Len(trace[k]) : trace[k][i] = ev

\* Mutant of Reject: the failed run starts over with a new boot.
RejectAndRetry(k, name, message, evs) ==
  /\ pc' = [pc EXCEPT ![k] = "boot"]
  /\ uncaught' = [uncaught EXCEPT ![k] = [name |-> name, message |-> message]]
  /\ trace' = [trace EXCEPT ![k] = <<"boot">>]

\* A run's promise rejects and nobody catches it (setupWebContainer() and
\* startDevServer(instance) are called without await or catch).
Reject(k, name, message, evs) ==
  /\ pc' = [pc EXCEPT ![k] = "failed"]
  /\ uncaught' = [uncaught EXCEPT ![k] = [name |-> name, message |-> message]]
  /\ trace' = [trace EXCEPT ![k] = @ \o evs]

\* if (initialized) return;
Guarded(initialized) == initialized

\* n invocations of the effect callback on one closure, whose `initialized`
\* is given: each returns if it is set, else calls setInitialized(true) and
\* setupWebContainer(), which runs up to its first await (WebContainer.boot()).
Effect(initialized, n) ==
  IF Guarded(initialized)
    THEN UNCHANGED <<state, started, pc, trace>>
    ELSE /\ state' = [state EXCEPT !.initialized = TRUE]
         /\ started' = started + n
         /\ pc' = [k \in Runs |-> IF k \in (started + 1)..(started + n)
                                     THEN "boot" ELSE pc[k]]
         /\ trace' = [k \in Runs |-> IF k \in (started + 1)..(started + n)
                                        THEN <<"boot">> ELSE trace[k]]

\* The component mounts: React runs the effect of the first render, n times.
Mount(n) ==
  /\ ~mounted
  /\ mounted' = TRUE
  /\ Effect(rendered.initialized, n)
  /\ UNCHANGED <<stimuli, rendered, frameVars, installExit, uncaught, procVars, readyVars,
                 syncVars, uploadVars>>

\* React commits a re-render: closures see the latest state, the iframe is
\* mounted iff loading is false, a newly mounted iframe has no src, and the
\* effect runs again when its dependency [initialized] changed.
Render ==
  /\ mounted
  /\ rendered # state
  /\ rendered' = state
  /\ iframeRef' = ~state.loading
  /\ iframeSrc' = IF iframeRef /\ ~state.loading THEN iframeSrc ELSE NoSrc
  /\ IF state.initialized # rendered.initialized
       THEN Effect(state.initialized, 1)
       ELSE UNCHANGED <<state, started, pc, trace>>
  /\ UNCHANGED <<stimuli, mounted, installExit, uncaught, procVars, readyVars,
                 syncVars, uploadVars>>

\* WebContainer.boot() settles; on success the instance is stored and the
\* seed tree is mounted.
BootSettle(k, ok) ==
  /\ pc[k] = "boot"
  /\ IF ok
       THEN /\ state' = [state EXCEPT !.webcontainerInstance = k]
            /\ pc' = [pc EXCEPT ![k] = "mount"]
            /\ trace' = [trace EXCEPT ![k] = @ \o <<"boot.ok", "mount">>]
            /\ UNCHANGED uncaught
       ELSE /\ Reject(k, "BootError", "boot failed", <<"boot.err">>)
            /\ UNCHANGED state
  /\ UNCHANGED <<stimuli, effectVars, rendered, frameVars, installExit, procVars, readyVars, syncVars, uploadVars>>

\* Mutant of InstallStart: the flag is cleared instead of set.
InstallStartLoadingOff(k) ==
  /\ state' = [state EXCEPT !.loading = FALSE]
  /\ pc' = [pc EXCEPT ![k] = "spawnInstall"]
  /\ trace' = [trace EXCEPT ![k] = @ \o <<"mount.ok", "spawn.install">>]

\* installDependencies up to its first await: setLoading(true); spawn.
InstallStart(k) ==
  /\ state' = [state EXCEPT !.loading = TRUE]
  /\ pc' = [pc EXCEPT ![k] = "spawnInstall"]
  /\ trace' = [trace EXCEPT ![k] = @ \o <<"mount.ok", "spawn.install">>]

\* instance.mount(files) settles; the seed content of App.jsx is in place.
MountSettle(k, ok) ==
  /\ pc[k] = "mount"
  /\ IF ok
       THEN /\ InstallStart(k)
            /\ fs' = [fs EXCEPT ![k] = Seed]
            /\ UNCHANGED uncaught
       ELSE /\ Reject(k, "MountError", "mount failed", <<"mount.err">>)
            /\ UNCHANGED <<state, fs>>
  /\ UNCHANGED <<stimuli, effectVars, rendered, frameVars, installExit, procVars, readyVars,
                 inflight, pushes, uploadVars>>

\* Mutant of PipeOutput: the sink is never attached.
PipeOutputMissing(k) == piped' = piped

\* installProcess.output.pipeTo(new WritableStream({write: console.log})).
PipeOutput(k) == piped' = [piped EXCEPT ![k] = TRUE]

\* instance.spawn('npm', ['install']) settles; the sink is attached.
InstallSpawnSettle(k, ok) ==
  /\ pc[k] = "spawnInstall"
  /\ IF ok
       THEN /\ PipeOutput(k)
            /\ pc' = [pc EXCEPT ![k] = "exit"]
            /\ trace' = [trace EXCEPT ![k] = @ \o <<"spawn.install.ok">>]
            /\ UNCHANGED uncaught
       ELSE /\ Reject(k, "SpawnError", "spawn failed", <<"spawn.install.err">>)
            /\ UNCHANGED piped
  /\ UNCHANGED <<stimuli, effectVars, state, rendered, frameVars, installExit, outQueue, sinkLog,
                 emitted, readyVars, syncVars, uploadVars>>

\* The install process writes its next chunk into its output stream.
EmitChunk(k) ==
  /\ pc[k] = "exit"
  /\ stimuli < MaxStimuli
  /\ stimuli' = stimuli + 1
  /\ emitted' = [emitted EXCEPT ![k] = @ + 1]
  /\ outQueue' = [outQueue EXCEPT ![k] = Append(@, emitted[k] + 1)]
  /\ UNCHANGED <<effectVars, state, rendered, frameVars, orchVars, sinkLog, piped,
                 readyVars, syncVars, uploadVars>>

\* pipeTo reads the next chunk of the stream and hands it to write(data).
Pump(k) ==
  /\ piped[k]
  /\ outQueue[k] # <<>>
  /\ sinkLog' = [sinkLog EXCEPT ![k] = Append(@, Head(outQueue[k]))]
  /\ outQueue' = [outQueue EXCEPT ![k] = Tail(@)]
  /\ UNCHANGED <<stimuli, effectVars, state, rendered, frameVars, orchVars, emitted, piped,
                 readyVars, syncVars, uploadVars>>

\* The exit promise of a process handle resolves only after all output has
\* been delivered to the attached sinks.
ExitResolvable(k) == piped[k] => outQueue[k] = <<>>

\* Mutant of AfterInstall: the exit code is not looked at.
AfterInstallUnchecked(k, exitCode) ==
  /\ pc' = [pc EXCEPT ![k] = "spawnDev"]
  /\ trace' = [trace EXCEPT ![k] = @ \o <<"exit", "spawn.dev">>]
  /\ UNCHANGED uncaught

\* Mutant of AfterInstall: only exit code 1 counts as a failure.
AfterInstallOnlyOne(k, exitCode) ==
  IF exitCode = 1
    THEN Reject(k, "Error", "Installation failed", <<"exit">>)
    ELSE /\ pc' = [pc EXCEPT ![k] = "spawnDev"]
         /\ trace' = [trace EXCEPT ![k] = @ \o <<"exit", "spawn.dev">>]
         /\ UNCHANGED uncaught

\* setupWebContainer after installDependencies returned exitCode.
AfterInstall(k, exitCode) ==
  IF exitCode # 0
    THEN Reject(k, "Error", "Installation failed", <<"exit">>)
    ELSE /\ pc' = [pc EXCEPT ![k] = "spawnDev"]
         /\ trace' = [trace EXCEPT ![k] = @ \o <<"exit", "spawn.dev">>]
         /\ UNCHANGED uncaught

\* installProcess.exit resolves: setLoading(false); return exitCode; then the
\* caller throws or calls startDevServer, which spawns `npm run dev`.
InstallExit(k, exitCode) ==
  /\ pc[k] = "exit"
  /\ ExitResolvable(k)
  /\ state' = [state EXCEPT !.loading = FALSE]
  /\ installExit' = [installExit EXCEPT ![k] = exitCode]
  /\ AfterInstall(k, exitCode)
  /\ UNCHANGED <<stimuli, effectVars, rendered, frameVars, procVars, readyVars, syncVars, uploadVars>>

\* instance.spawn('npm', ['run', 'dev']) settles; then the listener is registered.
DevSpawnSettle(k, ok) ==
  /\ pc[k] = "spawnDev"
  /\ IF ok
       THEN /\ listeners' = listeners \cup {k}
            /\ pc' = [pc EXCEPT ![k] = "listening"]
            /\ trace' = [trace EXCEPT ![k] = @ \o <<"spawn.dev.ok", "on.server-ready">>]
            /\ UNCHANGED uncaught
       ELSE /\ Reject(k, "SpawnError", "spawn failed", <<"spawn.dev.err">>)
            /\ UNCHANGED listeners
  /\ UNCHANGED <<stimuli, effectVars, state, rendered, frameVars, installExit, procVars, readyCount,
                 lastReady, syncVars, uploadVars>>

\* `${url}/`
SrcOf(url) == url \o "/"

\* The 'server-ready' handler.
OnServerReady(port, url) ==
  iframeSrc' = IF iframeRef THEN SrcOf(url) ELSE iframeSrc

\* The sandbox of run k announces its dev server; registered listeners run.
ServerReady(k, port, url) ==
  /\ pc[k] \in {"spawnDev", "listening"}
  /\ stimuli < MaxStimuli
  /\ stimuli' = stimuli + 1
  /\ readyCount' = readyCount + 1
  /\ lastReady' = url
  /\ IF k \in listeners THEN OnServerReady(port, url) ELSE UNCHANGED iframeSrc
  /\ UNCHANGED <<effectVars, state, rendered, iframeRef, orchVars, procVars, listeners,
                 syncVars, uploadVars>>

\* Mutant of WriteIndexJS: the loading indicator is switched on for the write.
WriteIndexJSWithSpinner(content) ==
  /\ inflight' = IF rendered.webcontainerInstance # NoInstance
                   THEN inflight \cup {[inst |-> rendered.webcontainerInstance,
                                        content |-> content, id |-> pushes + 1]}
                   ELSE inflight
  /\ state' = [state EXCEPT !.loading = TRUE]
  /\ UNCHANGED <<effectVars, rendered, frameVars, orchVars, procVars, readyVars, fs,
                 uploadVars>>

\* writeIndexJS(content), called by the textarea's onInput: one writeFile to
\* '/App.jsx' on the instance the closure holds, nothing when it holds none.
WriteIndexJS(content) ==
  /\ inflight' = IF rendered.webcontainerInstance # NoInstance
                   THEN inflight \cup {[inst |-> rendered.webcontainerInstance,
                                        content |-> content, id |-> pushes + 1]}
                   ELSE inflight
  /\ UNCHANGED <<effectVars, state, rendered, frameVars, orchVars, procVars, readyVars, fs,
                 uploadVars>>

\* The user types in the textarea.
Push(content) ==
  /\ stimuli < MaxStimuli
  /\ stimuli' = stimuli + 1
  /\ pushes' = pushes + 1
  /\ WriteIndexJS(content)

\* The sandbox applies one writeFile('/App.jsx', content).
WriteDone(w) ==
  /\ w \in inflight
  /\ fs' = [fs EXCEPT ![w.inst] = w.content]
  /\ inflight' = inflight \ {w}
  /\ UNCHANGED <<stimuli, effectVars, state, rendered, frameVars, orchVars, procVars, readyVars,
                 pushes, uploadVars>>

\* fileName.replace(/[^a-z0-9]/gi, '_').toLowerCase()
ToLowerCase(c) == IF c = "A" THEN "a" ELSE c
SanitizeFileName(fileName) ==
  [i \in 1..Len(fileName) |->
     IF fileName[i] \in Lowers \cup Uppers \cup Digits
       THEN ToLowerCase(fileName[i]) ELSE "_"]

\* The keys of fileContents: `/${sanitizedFileName}` for each file.
UploadPaths(files) == {<<"/">> \o SanitizeFileName(files[i]) : i \in 1..Len(files)}

\* handleFileUpload, fired by the file input's onChange: read and parse each
\* file, mount them on the instance its closure holds, setModelMetadata.
\* Nothing it awaits reads state another handler writes, so it is one step.
HandleFileUpload(files, parsed) ==
  /\ stimuli < MaxStimuli
  /\ stimuli' = stimuli + 1
  /\ IF Len(files) = 0
       THEN UNCHANGED <<state, uploaded, uploadFaults>>
       ELSE IF ~parsed
         THEN /\ uploadFaults' = uploadFaults \cup {"ParseError"}
              /\ UNCHANGED <<state, uploaded>>
         ELSE IF rendered.webcontainerInstance = NoInstance
           THEN /\ uploadFaults' = uploadFaults \cup {"TypeError"}
                /\ UNCHANGED <<state, uploaded>>
           ELSE /\ uploaded' = [uploaded EXCEPT ![rendered.webcontainerInstance] =
                                   @ \cup UploadPaths(files)]
                /\ state' = [state EXCEPT !.modelMetadata =
                                [i \in 1..Len(files) |->
                                   <<"/">> \o SanitizeFileName(files[i])]]
                /\ UNCHANGED uploadFaults
  /\ UNCHANGED <<effectVars, rendered, frameVars, orchVars, procVars, readyVars, syncVars>>

Next ==
  \/ \E n \in MountInvocations : Mount(n)
  \/ Render
  \/ \E k \in Runs, ok \in BOOLEAN : BootSettle(k, ok)
  \/ \E k \in Runs, ok \in BOOLEAN : MountSettle(k, ok)
  \/ \E k \in Runs, ok \in BOOLEAN : InstallSpawnSettle(k, ok)
  \/ \E k \in Runs : EmitChunk(k)
  \/ \E k \in Runs : Pump(k)
  \/ \E k \in Runs, c \in ExitCodes : InstallExit(k, c)
  \/ \E k \in Runs, ok \in BOOLEAN : DevSpawnSettle(k, ok)
  \/ \E k \in Runs, p \in Ports, u \in Urls : ServerReady(k, p, u)
  \/ \E c \in Contents : Push(c)
  \/ \E w \in inflight : WriteDone(w)
  \/ \E files \in FileLists, parsed \in BOOLEAN : HandleFileUpload(files, parsed)

Spec == Init /\ [][Next]_vars

(***************************************************************************)
(* Observations used by the properties.                                    *)
(***************************************************************************)

\* Event a comes before event b in run k's trace.
Before(k, a, b) == Has(k, a) /\ Has(k, b) /\ Pos(k, a) < Pos(k, b)

\* Number of runs that issued the call ev.
Calls(ev) == Cardinality({k \in Runs : Has(k, ev)})

\* 1, 2, ..., n
UpTo(n) == [i \in 1..n |-> i]

\* The exit code an error value carries, if any.
ErrorCode(e) == IF "exitCode" \in DOMAIN e THEN e.exitCode ELSE NoExit

InstallFailed(k) == installExit[k] \notin {NoExit, 0}

(***************************************************************************)
(* C1. Sequencing: in every run the initial mount is issued only after     *)
(* boot's result is there, the install spawn only after the mount          *)
(* completed, and the dev-server spawn only after the install process's    *)
(* exit code is known to be 0, whatever the other handlers do meanwhile.   *)
(***************************************************************************)
C1_Sequencing ==
  \A k \in Runs :
    /\ Has(k, "mount") => Before(k, "boot.ok", "mount")
    /\ Has(k, "spawn.install") => Before(k, "mount.ok", "spawn.install")
    /\ Has(k, "spawn.dev") => Before(k, "exit", "spawn.dev") /\ installExit[k] = 0

C1_Witness ==
  \E k \in Runs : Has(k, "spawn.dev") /\ pushes > 0 /\ rendered = state

(***************************************************************************)
(* C2. Idempotent start: however often the effect is invoked, boot, the    *)
(* initial mount, the install spawn and the dev-server spawn are each      *)
(* called at most once in the session.                                     *)
(***************************************************************************)
C2_IdempotentStart ==
  /\ Calls("boot") <= 1
  /\ Calls("mount") <= 1
  /\ Calls("spawn.install") <= 1
  /\ Calls("spawn.dev") <= 1

(***************************************************************************)
(* C3. Install failure halts the pipeline: a run whose install process     *)
(* exited with a non-zero code never spawns the dev server and never       *)
(* registers the readiness listener.                                       *)
(***************************************************************************)
C3_InstallFailureHalts ==
  \A k \in Runs :
    InstallFailed(k) =>
      /\ ~Has(k, "spawn.dev")
      /\ ~Has(k, "on.server-ready")
      /\ k \notin listeners
      /\ pc[k] = "failed"

C3_Witness ==
  \E k \in Runs : installExit[k] = 2 /\ stimuli = MaxStimuli /\ rendered = state

(***************************************************************************)
(* C4. Install failure carries its code: after a non-zero exit code c the  *)
(* error the run surfaces carries exactly c.                               *)
(***************************************************************************)
C4_FailureCarriesCode ==
  \A k \in Runs : InstallFailed(k) => ErrorCode(uncaught[k]) = installExit[k]

(***************************************************************************)
(* C5. No output loss or reorder: the chunks written to the sink followed  *)
(* by those still in the stream are exactly the chunks the install process *)
(* emitted, in emission order, and once the run has seen the exit outcome  *)
(* the sink has received all of them.                                      *)
(***************************************************************************)
C5_NoOutputLoss ==
  \A k \in Runs :
    /\ sinkLog[k] \o outQueue[k] = UpTo(emitted[k])
    /\ Has(k, "exit") => sinkLog[k] = UpTo(emitted[k])

C5_Witness ==
  \E k \in Runs : Has(k, "exit") /\ emitted[k] = 2 /\ sinkLog[k] = <<1, 2>>

\* What the component renders in the preview pane: loading ? <div> : <iframe>.
View == IF rendered.loading THEN "loading" ELSE "preview"

\* The address the preview surface shows is url, as given or as `${url}/`.
Exposes(url) == iframeRef /\ iframeSrc \in {url, SrcOf(url)}

\* The lifecycle phase of run k.
Phase(k) ==
  CASE pc[k] = "none" -> "Idle"
    [] pc[k] = "boot" -> "Booting"
    [] pc[k] = "mount" -> "Mounting"
    [] pc[k] \in {"spawnInstall", "exit"} -> "Installing"
    [] pc[k] \in {"spawnDev", "listening"} ->
         IF iframeSrc = NoSrc THEN "Starting" ELSE "Ready"
    [] pc[k] = "failed" -> "Failed"

BootResolved == \E k \in Runs : Has(k, "boot.ok")

(***************************************************************************)
(* C6. Readiness overwrite: once two readiness events have fired, the      *)
(* address the preview surface shows is that of the later one.  (Stated    *)
(* up to the trailing slash the handler appends.)                          *)
(***************************************************************************)
C6_ReadinessOverwrite ==
  (started = 1 /\ readyCount >= 2) => Exposes(lastReady)

(***************************************************************************)
(* C7. Scenario A: boot and mount succeed, install exits with 0 and the    *)
(* sandbox emits ready (5173, "http://x.local") after the dev-server       *)
(* spawn; then the preview surface ends up showing "http://x.local".       *)
(* Stated on the final states of a single run: the spawn has settled, the  *)
(* re-render is committed and no further event can come.                   *)
(***************************************************************************)
C7_ScenarioA ==
  ( /\ started = 1
    /\ pc[1] = "listening"
    /\ rendered = state
    /\ readyCount >= 1
    /\ lastReady = "http://x.local"
    /\ stimuli = MaxStimuli )
  => Exposes("http://x.local")

(***************************************************************************)
(* C8. Scenario C: an edit pushed before any boot has resolved issues no   *)
(* write (and raises nothing); an edit pushed after boot has resolved      *)
(* issues a write, whose content the sandbox then holds at /App.jsx.       *)
(***************************************************************************)
C8_ScenarioC ==
  [][ /\ (pushes' # pushes /\ ~BootResolved) => inflight' = inflight
      /\ (pushes' # pushes /\ BootResolved) =>
            \E w \in inflight' \ inflight : w.id = pushes'
      /\ \A w \in inflight \ inflight' : fs'[w.inst] = w.content ]_vars

C10_DistinctErrorState ==
  \A k \in Runs : pc[k] = "failed" => View \notin {"loading", "preview"}

\* Run k has failed: its promise was rejected.
Failed(k) == uncaught[k] # NoError

\* The writes to '/App.jsx' in sandbox k that are in flight.
InFlightTo(k) == {w \in inflight : w.inst = k}

(***************************************************************************)
(* C11. Readiness is not missed: every readiness event the sandbox emits   *)
(* once the dev-server spawn has been issued, also while the spawn is      *)
(* still pending, finds the listener registered.  (Stated for a session    *)
(* with one run.)                                                          *)
(***************************************************************************)
C11_ReadinessNotMissed ==
  [][(started = 1 /\ readyCount' # readyCount) => 1 \in listeners]_vars

(***************************************************************************)
(* C12. Per-path write serialization: at most one write to '/App.jsx' of   *)
(* a sandbox is in flight at a time, and a write is applied only when no   *)
(* write issued before it is still in flight.                              *)
(***************************************************************************)
C12_WriteSerialization ==
  [][ /\ \A k \in Runs : Cardinality({w \in inflight' : w.inst = k}) <= 1
      /\ \A w \in inflight \ inflight' :
           \A v \in InFlightTo(w.inst) : v.id >= w.id ]_vars

(***************************************************************************)
(* C13. No cross-component write conflict: while the initial mount of the  *)
(* seed tree is in flight in a sandbox, no write of the file-sync channel  *)
(* to '/App.jsx' of that sandbox is in flight, so the mount cannot         *)
(* overwrite an accepted edit.  (Stated for a session with one run.)       *)
(***************************************************************************)
C13_NoWriteConflict ==
  started = 1 => ~(pc[1] = "mount" /\ InFlightTo(1) # {})

(***************************************************************************)
(* C14. Push frame condition: an edit, dropped or written, leaves the      *)
(* runs' positions and calls, the loading flag and the rest of the React   *)
(* state, the frame and its address, the processes and listeners and the   *)
(* sandbox files as they are and issues at most one write, to '/App.jsx'   *)
(* of the instance the handler holds; applying a write changes the         *)
(* content of '/App.jsx' in that sandbox and nothing else.                 *)
(***************************************************************************)
C14_PushFrame ==
  [][ /\ pushes' # pushes =>
           /\ UNCHANGED <<mounted, started, state, rendered, iframeRef, iframeSrc, pc,
                          trace, installExit, uncaught, outQueue, sinkLog, emitted,
                          piped, listeners, readyCount, lastReady, fs, uploaded,
                          uploadFaults>>
           /\ inflight \subseteq inflight'
           /\ Cardinality(inflight' \ inflight) <= 1
           /\ \A w \in inflight' \ inflight :
                w.inst = rendered.webcontainerInstance /\ w.inst # NoInstance
      /\ \A w \in inflight \ inflight' :
           /\ UNCHANGED <<mounted, started, state, rendered, iframeRef, iframeSrc, pc,
                          trace, installExit, uncaught, outQueue, sinkLog, emitted,
                          piped, listeners, readyCount, lastReady, uploaded,
                          uploadFaults>>
           /\ \A k \in Runs \ {w.inst} : fs'[k] = fs[k] ]_vars

C14_Witness ==
  /\ pushes = 2
  /\ \E k \in Runs : fs[k] \in Contents /\ pc[k] \in {"exit", "spawnDev", "listening"}
  /\ ~state.loading

C16_AddressNeverDiscarded ==
  [][(started = 1 /\ readyCount' # readyCount /\ 1 \in listeners)
       => iframeRef /\ iframeSrc' = SrcOf(lastReady')]_vars

====
